---- MODULE Spec2Model ----
(***************************************************************************)
(* Model of src/app1.py, the Streamlit project and task dashboard.         *)
(*                                                                         *)
(* The script is re-executed from its first line on every user             *)
(* interaction.  One execution ("run") is modelled as a fixed sequence of  *)
(* steps, one per section of the script; pc names the section that is      *)
(* executed next.  A widget call returns a value the user chose, so the    *)
(* step that contains the widget draws that value with \E.                 *)
(*                                                                         *)
(* A DataFrame is a record [columns, rows]: columns is the sequence of     *)
(* column labels, rows the sequence of [index, cells] records, index the   *)
(* pandas row label and cells the mapping column label -> cell value.      *)
(* Text cells are strings; the cells of the two date columns are pairs     *)
(* <<kind, text>>: kind "str" for a text cell holding text as typed       *)
(* (month/day/year here), kind "datetime" for a Timestamp, whose text is   *)
(* the ISO form pandas prints.  The workbook (sheets_dict) is the sequence *)
(* of [name, df] entries in dict insertion order.                          *)
(***************************************************************************)
EXTENDS Integers, Sequences, FiniteSets, TLC

VARIABLES
    uploaded_file,      \* the uploaded workbook as parsed by xls.parse; None before upload
    sheets_dict,        \* the workbook this run works on (line 25)
    selected_project,   \* line 32
    assignee_filter,    \* line 42
    status_filter,      \* line 43
    filtered_df,        \* rows of the filtered view (lines 46-50, 155-159)
    metrics,            \* total_tasks, completed_tasks, pending_tasks, assignees, completion_rate
    task_lists,         \* completed / in process / pending lists as rendered (lines 101-108)
    task_to_comment,    \* line 140
    current_comment,    \* line 143
    new_comment,        \* line 146
    button,             \* TRUE once "Save Comment" was pressed in this run (line 149)
    updated_file,       \* the download offered by this run (lines 188-194)
    preview,            \* rows shown by the Task Data Preview (line 198)
    saved,              \* history: latest comment saved per <<project, task>> in the session
    pc                  \* the section of the script that runs next

vars == <<uploaded_file, sheets_dict, selected_project, assignee_filter,
          status_filter, filtered_df, metrics, task_lists, task_to_comment,
          current_comment, new_comment, button, updated_file, preview, saved, pc>>

-----------------------------------------------------------------------------
(* Bounds and input domains *)

MaxRows == 2

None == <<>>            \* no file uploaded / no download offered yet
NoTask == "<None>"      \* st.selectbox over no options returns None
NoProject == "<None>"

DateColumns == {"Planned End", "Actual End"}

Range(s) == {s[i] : i \in 1..Len(s)}

\* The task rows a sheet is built from: two tasks sharing a name, both
\* assignees, the three statuses the dashboard lists and one it does not.
RowChoices ==
    { [task |-> "A", assignee |-> "a1", status |-> "Completed",  comment |-> ""],
      [task |-> "B", assignee |-> "a2", status |-> "Pending",    comment |-> "c1"],
      [task |-> "A", assignee |-> "a2", status |-> "In process", comment |-> "c1"],
      [task |-> "C", assignee |-> "a1", status |-> "On Hold",    comment |-> ""] }

NewComments == {"x"}

DateKinds == {"none", "str", "datetime"}

SheetColumns(hasComments, dateKind) ==
    <<"Task Name", "Assignee", "Status">>
      \o (IF dateKind = "none" THEN <<>> ELSE <<"Planned End", "Actual End">>)
      \o (IF hasComments THEN <<"Comments">> ELSE <<>>)

CellOf(r, c, dateKind) ==
    CASE c = "Task Name"   -> r.task
      [] c = "Assignee"    -> r.assignee
      [] c = "Status"      -> r.status
      [] c = "Comments"    -> r.comment
      [] c = "Planned End" -> IF dateKind = "str" THEN <<"str", "01/05/2024">>
                              ELSE <<"datetime", "2024-01-05">>
      [] c = "Actual End"  -> IF dateKind = "str" THEN <<"str", "01/07/2024">>
                              ELSE <<"datetime", "2024-01-07">>

\* xls.parse(sheet_name): a DataFrame with a RangeIndex starting at 0
MkDataFrame(base, hasComments, dateKind) ==
    LET cols == SheetColumns(hasComments, dateKind)
    IN [columns |-> cols,
        rows    |-> [i \in 1..Len(base) |->
                       [index |-> i - 1,
                        cells |-> [c \in Range(cols) |-> CellOf(base[i], c, dateKind)]]]]

BaseSeqs == UNION {[1..n -> RowChoices] : n \in 0..MaxRows}

DataFrames ==
    {MkDataFrame(b, hc, dk) : b \in BaseSeqs, hc \in BOOLEAN, dk \in DateKinds}

\* the second sheet of every workbook: no Comments column, text dates
OtherSheet ==
    MkDataFrame(<<[task |-> "A", assignee |-> "a1", status |-> "Pending", comment |-> ""],
                  [task |-> "D", assignee |-> "a2", status |-> "Completed", comment |-> ""]>>,
                FALSE, "str")

Workbooks ==
    {<<[name |-> "P1", df |-> d], [name |-> "P2", df |-> OtherSheet]>> : d \in DataFrames}

-----------------------------------------------------------------------------
(* Helpers over the workbook *)

SheetIndex(wb, p) == CHOOSE i \in 1..Len(wb) : wb[i].name = p

Sheet(wb, p) == wb[SheetIndex(wb, p)].df

\* st.cache_data hands every call its own copy of the cached return value:
\* a run always starts from the workbook as parsed from the file.
load_all_sheets(file) == file

HasColumn(df, c) == c \in Range(df.columns)

Unique(rows, c) == {rows[i].cells[c] : i \in 1..Len(rows)}

-----------------------------------------------------------------------------
(* Lines 37-39: add a "Comments" column if it doesn't exist *)

\* variant: the "if 'Comments' not in df.columns" guard dropped
AddCommentsColumn_Always(df) ==
    [columns |-> IF HasColumn(df, "Comments") THEN df.columns
                 ELSE Append(df.columns, "Comments"),
     rows    |-> [i \in 1..Len(df.rows) |->
                    [df.rows[i] EXCEPT !.cells =
                       [c \in DOMAIN df.rows[i].cells \cup {"Comments"} |->
                          IF c = "Comments" THEN "" ELSE df.rows[i].cells[c]]]]]

AddCommentsColumn(df) ==
    IF HasColumn(df, "Comments") THEN df
    ELSE [columns |-> Append(df.columns, "Comments"),
          rows    |-> [i \in 1..Len(df.rows) |->
                         [df.rows[i] EXCEPT !.cells =
                            [c \in DOMAIN df.rows[i].cells \cup {"Comments"} |->
                               IF c = "Comments" THEN "" ELSE df.rows[i].cells[c]]]]]

ReplaceSheet(wb, p, df) == [wb EXCEPT ![SheetIndex(wb, p)].df = df]

(* Lines 45-50: Apply Filters *)

isin(v, selection) == v \in selection

FilterRows(rows, c, selection) ==
    SelectSeq(rows, LAMBDA r : isin(r.cells[c], selection))

\* variant: the two constraints joined with OR
ApplyFilters_Or(rows, af, sf) ==
    IF af # {} /\ sf # {}
    THEN SelectSeq(rows, LAMBDA r : isin(r.cells["Assignee"], af) \/ isin(r.cells["Status"], sf))
    ELSE IF af # {} THEN FilterRows(rows, "Assignee", af)
    ELSE IF sf # {} THEN FilterRows(rows, "Status", sf)
    ELSE rows

\* variant: the "if assignee_filter:" / "if status_filter:" guards dropped
ApplyFilters_Unguarded(rows, af, sf) ==
    FilterRows(FilterRows(rows, "Assignee", af), "Status", sf)

ApplyFilters(rows, af, sf) ==
    LET f0 == rows
        f1 == IF af # {} THEN FilterRows(f0, "Assignee", af) ELSE f0
        f2 == IF sf # {} THEN FilterRows(f1, "Status", sf) ELSE f1
    IN f2

(* Lines 52-71: Key Metrics *)

StatusIs(rows, s) == SelectSeq(rows, LAMBDA r : r.cells["Status"] = s)

StatusIsNot(rows, s) == SelectSeq(rows, LAMBDA r : r.cells["Status"] # s)

\* completion_rate is kept as the exact fraction <<numerator, denominator>>
CompletionRate(completed, total) ==
    IF total > 0 THEN <<completed * 100, total>> ELSE <<0, 1>>

KeyMetrics(rows) ==
    LET total     == Len(rows)
        completed == Len(StatusIs(rows, "Completed"))
        pending   == Len(StatusIsNot(rows, "Completed"))
    IN [total_tasks     |-> total,
        completed_tasks |-> completed,
        pending_tasks   |-> pending,
        assignees       |-> Cardinality(Unique(rows, "Assignee")),
        completion_rate |-> CompletionRate(completed, total)]

(* Lines 100-108: task lists by status; an entry is the rendered f-string,
   kept as its three interpolated values *)

RenderTask(r) == <<r.cells["Task Name"], r.cells["Assignee"], r.cells["Comments"]>>

TaskList(rows, s) ==
    LET sel == StatusIs(rows, s) IN [i \in 1..Len(sel) |-> RenderTask(sel[i])]

TaskLists(rows) ==
    [completed  |-> TaskList(rows, "Completed"),
     in_process |-> TaskList(rows, "In process"),
     pending    |-> TaskList(rows, "Pending")]

(* Line 143: the first matching row's comment in the filtered view *)

CurrentComment(rows, task) ==
    LET m == SelectSeq(rows, LAMBDA r : r.cells["Task Name"] = task)
    IN m[1].cells["Comments"]

(* Line 151: .loc[df["Task Name"] == task_to_comment, "Comments"] = new_comment *)

SetComment(df, task, comment) ==
    [df EXCEPT !.rows =
        [i \in 1..Len(df.rows) |->
            IF df.rows[i].cells["Task Name"] = task
            THEN [df.rows[i] EXCEPT !.cells["Comments"] = comment]
            ELSE df.rows[i]]]

\* variant: the assignment made on every sheet that has the column
SaveCommentTo_EverySheet(wb, p, task, comment) ==
    [i \in 1..Len(wb) |->
        IF HasColumn(wb[i].df, "Comments")
        THEN [wb[i] EXCEPT !.df = SetComment(wb[i].df, task, comment)]
        ELSE wb[i]]

SaveCommentTo(wb, p, task, comment) ==
    ReplaceSheet(wb, p, SetComment(Sheet(wb, p), task, comment))

(* Lines 163-165: pd.to_datetime over the two date columns, assigned back into df *)

\* parsing of the date texts the sheets hold; ISO text parses to itself
ParseDate(text) ==
    CASE text = "01/05/2024" -> "2024-01-05"
      [] text = "01/07/2024" -> "2024-01-07"
      [] OTHER               -> text

to_datetime(cell) ==
    IF cell[1] = "datetime" THEN cell ELSE <<"datetime", ParseDate(cell[2])>>

ConvertDates(df) ==
    IF HasColumn(df, "Planned End") /\ HasColumn(df, "Actual End")
    THEN [df EXCEPT !.rows =
            [i \in 1..Len(df.rows) |->
                [df.rows[i] EXCEPT !.cells =
                    [c \in DOMAIN df.rows[i].cells |->
                        IF c \in DateColumns THEN to_datetime(df.rows[i].cells[c])
                        ELSE df.rows[i].cells[c]]]]]
    ELSE df

(* Line 188: to_csv(index=False): a header line, then one line per row, the
   cells as text in column order *)

CellText(c, v) == IF c \in DateColumns THEN v[2] ELSE v

to_csv(df) ==
    <<df.columns>> \o
    [i \in 1..Len(df.rows) |->
        [k \in 1..Len(df.columns) |-> CellText(df.columns[k], df.rows[i].cells[df.columns[k]])]]

\* variant: the filtered view is encoded instead of the sheet
ExportData_FilteredView(wb, p, view) ==
    to_csv([columns |-> Sheet(wb, p).columns, rows |-> view])

\* line 188 encodes sheets_dict[selected_project], not the filtered view
ExportData(wb, p, view) == to_csv(Sheet(wb, p))

FileName(p) == <<"updated_task_data_", p, ".csv">>

-----------------------------------------------------------------------------
(* State machine *)

NoMetrics ==
    [total_tasks |-> 0, completed_tasks |-> 0, pending_tasks |-> 0,
     assignees |-> 0, completion_rate |-> <<0, 1>>]

NoLists == [completed |-> <<>>, in_process |-> <<>>, pending |-> <<>>]

Blank ==
    /\ sheets_dict = <<>>
    /\ selected_project = NoProject
    /\ assignee_filter = {}
    /\ status_filter = {}
    /\ filtered_df = <<>>
    /\ metrics = NoMetrics
    /\ task_lists = NoLists
    /\ task_to_comment = NoTask
    /\ current_comment = ""
    /\ new_comment = ""
    /\ button = FALSE
    /\ updated_file = None
    /\ preview = <<>>

Init ==
    /\ uploaded_file = None
    /\ Blank
    /\ saved = {}
    /\ pc = "idle"

\* lines 200-201: a run without a file only shows the warning
RunWithoutFile ==
    /\ pc = "idle"
    /\ uploaded_file = None
    /\ pc' = "no_file"
    /\ UNCHANGED <<uploaded_file, sheets_dict, selected_project, assignee_filter,
                   status_filter, filtered_df, metrics, task_lists, task_to_comment,
                   current_comment, new_comment, button, updated_file, preview, saved>>

\* line 21: the user uploads a workbook
Upload(wb) ==
    /\ pc \in {"idle", "no_file"}
    /\ uploaded_file = None
    /\ uploaded_file' = wb
    /\ pc' = "idle"
    /\ UNCHANGED <<sheets_dict, selected_project, assignee_filter,
                   status_filter, filtered_df, metrics, task_lists, task_to_comment,
                   current_comment, new_comment, button, updated_file, preview, saved>>

\* lines 23-39: a run starts; load the sheets, select a project, add Comments
SelectProject(p) ==
    /\ pc \in {"idle", "done", "error"}
    /\ uploaded_file # None
    /\ LET loaded == load_all_sheets(uploaded_file)
       IN sheets_dict' = ReplaceSheet(loaded, p, AddCommentsColumn(Sheet(loaded, p)))
    /\ selected_project' = p
    /\ assignee_filter' = {}
    /\ status_filter' = {}
    /\ filtered_df' = <<>>
    /\ metrics' = NoMetrics
    /\ task_lists' = NoLists
    /\ task_to_comment' = NoTask
    /\ current_comment' = ""
    /\ new_comment' = ""
    /\ button' = FALSE
    /\ updated_file' = None
    /\ preview' = <<>>
    /\ pc' = "sidebar"
    /\ UNCHANGED <<uploaded_file, saved>>

\* lines 41-134: filters, metrics, task lists
Dashboard(af, sf) ==
    /\ pc = "sidebar"
    /\ LET df == Sheet(sheets_dict, selected_project)
           view == ApplyFilters(df.rows, af, sf)
       IN /\ af \subseteq Unique(df.rows, "Assignee")
          /\ sf \subseteq Unique(df.rows, "Status")
          /\ assignee_filter' = af
          /\ status_filter' = sf
          /\ filtered_df' = view
          /\ metrics' = KeyMetrics(view)
          /\ task_lists' = TaskLists(view)
    /\ pc' = "editor"
    /\ UNCHANGED <<uploaded_file, sheets_dict, selected_project, task_to_comment,
                   current_comment, new_comment, button, updated_file, preview, saved>>

\* lines 139-143 with a non-empty view
Editor(task) ==
    /\ pc = "editor"
    /\ task \in Unique(filtered_df, "Task Name")
    /\ task_to_comment' = task
    /\ current_comment' = CurrentComment(filtered_df, task)
    /\ pc' = "button"
    /\ UNCHANGED <<uploaded_file, sheets_dict, selected_project, assignee_filter,
                   status_filter, filtered_df, metrics, task_lists,
                   new_comment, button, updated_file, preview, saved>>

\* lines 139-143 with an empty view: the selectbox returns None and
\* .values[0] of the empty selection raises IndexError; the run stops here
EditorFails ==
    /\ pc = "editor"
    /\ Unique(filtered_df, "Task Name") = {}
    /\ pc' = "error"
    /\ UNCHANGED <<uploaded_file, sheets_dict, selected_project, assignee_filter,
                   status_filter, filtered_df, metrics, task_lists, task_to_comment,
                   current_comment, new_comment, button, updated_file, preview, saved>>

\* lines 146-159 with the button pressed
SaveComment(comment) ==
    /\ pc = "button"
    /\ new_comment' = comment
    /\ button' = TRUE
    /\ sheets_dict' = SaveCommentTo(sheets_dict, selected_project, task_to_comment, comment)
    /\ filtered_df' = ApplyFilters(Sheet(sheets_dict', selected_project).rows,
                                   assignee_filter, status_filter)
    /\ pc' = "timeline"
    /\ UNCHANGED <<uploaded_file, selected_project, assignee_filter, status_filter,
                   metrics, task_lists, task_to_comment, current_comment,
                   updated_file, preview>>

\* lines 146-149 with the button not pressed
NoSave(comment) ==
    /\ pc = "button"
    /\ new_comment' = comment
    /\ pc' = "timeline"
    /\ UNCHANGED <<uploaded_file, sheets_dict, selected_project, assignee_filter,
                   status_filter, filtered_df, metrics, task_lists, task_to_comment,
                   current_comment, button, updated_file, preview, saved>>

\* lines 161-198: timeline, download, preview
Finish ==
    /\ pc = "timeline"
    /\ sheets_dict' = ReplaceSheet(sheets_dict, selected_project,
                                   ConvertDates(Sheet(sheets_dict, selected_project)))
    /\ updated_file' = [file_name |-> FileName(selected_project),
                        data |-> ExportData(sheets_dict', selected_project, filtered_df)]
    /\ preview' = filtered_df
    /\ pc' = "done"
    /\ UNCHANGED <<uploaded_file, selected_project, assignee_filter, status_filter,
                   filtered_df, metrics, task_lists, task_to_comment, current_comment,
                   new_comment, button, saved>>

ProjectNames(wb) == [i \in 1..Len(wb) |-> wb[i].name]

Assignees == {"a1", "a2"}
Statuses == {"Completed", "In process", "Pending", "On Hold"}
TaskNames == {"A", "B", "C", "D"}

\* what the text area can hold when the button is evaluated
CommentInputs == NewComments \cup {current_comment}

UploadFile == \E wb \in Workbooks : Upload(wb)

StartRun == \E p \in Range(ProjectNames(uploaded_file)) : SelectProject(p)

ShowDashboard == \E af \in SUBSET Assignees, sf \in SUBSET Statuses : Dashboard(af, sf)

ShowEditor == \E t \in TaskNames : Editor(t)

PressSave == \E c \in CommentInputs : SaveComment(c) /\ UNCHANGED saved

SkipSave == \E c \in CommentInputs : NoSave(c)

Next ==
    \/ RunWithoutFile
    \/ UploadFile
    \/ StartRun
    \/ ShowDashboard
    \/ ShowEditor
    \/ EditorFails
    \/ PressSave
    \/ SkipSave
    \/ Finish

Spec == Init /\ [][Next]_vars

-----------------------------------------------------------------------------
(* A session on one uploaded file, with the history of the comments saved  *)
(* in it: saved holds, per project and task, the comment of the latest     *)
(* Save Comment on that task.                                              *)

SessionWorkbooks ==
    {<<[name |-> "P1",
        df |-> MkDataFrame(
                 <<[task |-> "A", assignee |-> "a1", status |-> "Completed", comment |-> ""],
                   [task |-> "B", assignee |-> "a2", status |-> "Pending", comment |-> "c1"]>>,
                 TRUE, "none")],
       [name |-> "P2", df |-> OtherSheet]>>}

SessionInit ==
    /\ uploaded_file \in SessionWorkbooks
    /\ Blank
    /\ saved = {}
    /\ pc = "idle"

RecordSave(c) ==
    saved' = {e \in saved : ~(e.project = selected_project /\ e.task = task_to_comment)}
                \cup {[project |-> selected_project, task |-> task_to_comment, comment |-> c]}

PressSaveRecorded == \E c \in CommentInputs : SaveComment(c) /\ RecordSave(c)

SessionNext ==
    \/ StartRun
    \/ ShowDashboard
    \/ ShowEditor
    \/ EditorFails
    \/ PressSaveRecorded
    \/ SkipSave
    \/ Finish

SessionSpec == SessionInit /\ [][SessionNext]_vars

-----------------------------------------------------------------------------
(* Properties *)

\* states of a run in which filtered_df is the view of the sheet as it is now
ViewPcs == {"editor", "button", "timeline", "error"}

SelectedRows == Sheet(sheets_dict, selected_project).rows

Satisfies(r) ==
    /\ assignee_filter # {} => r.cells["Assignee"] \in assignee_filter
    /\ status_filter # {} => r.cells["Status"] \in status_filter

\* C1: the filtered view is a subsequence of the selected sheet's rows in
\* original order, and a row is in the view iff it satisfies every column
\* that has a non-empty selection (the constraints compose with AND).
C1_FilterIsExactSubsequence ==
    pc \in ViewPcs =>
        /\ \A k \in 1..Len(filtered_df) :
              \E i \in 1..Len(SelectedRows) : SelectedRows[i] = filtered_df[k]
        /\ \A k1, k2 \in 1..Len(filtered_df) :
              k1 < k2 => filtered_df[k1].index < filtered_df[k2].index
        /\ \A i \in 1..Len(SelectedRows) :
              Satisfies(SelectedRows[i]) <=>
                 \E k \in 1..Len(filtered_df) : filtered_df[k] = SelectedRows[i]

C1_Witness ==
    /\ pc = "editor"
    /\ assignee_filter # {}
    /\ status_filter # {}
    /\ Len(filtered_df) > 0
    /\ \E i \in 1..Len(SelectedRows) :
          /\ SelectedRows[i].cells["Assignee"] \in assignee_filter
          /\ SelectedRows[i].cells["Status"] \notin status_filter

\* C4: with no assignee and no status selected the view is every row of the
\* sheet in the same order; with exactly one selection empty the view is
\* decided by the other selection alone.
C4_EmptySelectionIsNoConstraint ==
    pc \in ViewPcs =>
        /\ (assignee_filter = {} /\ status_filter = {}) => filtered_df = SelectedRows
        /\ (assignee_filter = {} /\ status_filter # {}) =>
              filtered_df = SelectSeq(SelectedRows,
                                      LAMBDA r : r.cells["Status"] \in status_filter)
        /\ (assignee_filter # {} /\ status_filter = {}) =>
              filtered_df = SelectSeq(SelectedRows,
                                      LAMBDA r : r.cells["Assignee"] \in assignee_filter)

C4_Witness ==
    /\ pc = "editor"
    /\ assignee_filter = {}
    /\ status_filter # {}
    /\ Len(filtered_df) > 0
    /\ Len(filtered_df) < Len(SelectedRows)

\* C5: saving a comment leaves every sheet other than the selected one as it
\* was, and the sequence of sheet names is unchanged.
C5_SaveLeavesOtherSheets ==
    [][(button' /\ ~button) =>
          /\ Len(sheets_dict') = Len(sheets_dict)
          /\ \A i \in 1..Len(sheets_dict) :
                /\ sheets_dict'[i].name = sheets_dict[i].name
                /\ sheets_dict[i].name # selected_project =>
                      sheets_dict'[i] = sheets_dict[i]]_vars

C5_Witness ==
    /\ pc = "timeline"
    /\ button
    /\ selected_project = "P2"
    /\ HasColumn(Sheet(sheets_dict, "P1"), "Comments")
    /\ task_to_comment \in Unique(Sheet(sheets_dict, "P1").rows, "Task Name")
    /\ Sheet(sheets_dict, "P2") # AddCommentsColumn(Sheet(uploaded_file, "P2"))

\* states of a run, from project selection to its end
RunPcs == {"sidebar", "editor", "button", "timeline", "done", "error"}

\* C2 (as claimed): saving a comment keeps the sheet's row count and columns,
\* sets the Comments cell of the one selected row and leaves every other
\* cell of the sheet unchanged.
C2_SaveEditsOneRow ==
    [][(button' /\ ~button) =>
          LET old == Sheet(sheets_dict, selected_project)
              new == Sheet(sheets_dict', selected_project)
          IN /\ new.columns = old.columns
             /\ Len(new.rows) = Len(old.rows)
             /\ \E i \in 1..Len(old.rows) :
                   /\ old.rows[i].cells["Task Name"] = task_to_comment
                   /\ new.rows[i].cells["Comments"] = new_comment'
                   /\ \A j \in 1..Len(old.rows) :
                         /\ new.rows[j].index = old.rows[j].index
                         /\ \A c \in Range(old.columns) :
                               (j # i \/ c # "Comments") =>
                                  new.rows[j].cells[c] = old.rows[j].cells[c]]_vars

\* C3 (as claimed): in a run in which Save Comment is not pressed every
\* sheet keeps the columns and cell values that were loaded.
C3_OnlySaveChangesSheets ==
    (pc \in RunPcs /\ ~button) => sheets_dict = load_all_sheets(uploaded_file)

\* C3 (amended): in a run in which Save Comment is not pressed, every sheet
\* other than the selected one equals what was loaded; the selected sheet
\* keeps its rows and its loaded cell values, except that a Comments column
\* of empty strings is appended when the loaded sheet has none, and that a
\* run that reaches the timeline section replaces the Planned End / Actual
\* End cells (when both columns are present) by their parsed datetimes.
C3_OnlySaveAndNormalisationChangeSheets ==
    (pc \in RunPcs /\ ~button) =>
        /\ Len(sheets_dict) = Len(uploaded_file)
        /\ \A i \in 1..Len(sheets_dict) :
              LET cur == sheets_dict[i].df
                  org == uploaded_file[i].df
              IN /\ sheets_dict[i].name = uploaded_file[i].name
                 /\ sheets_dict[i].name # selected_project => cur = org
                 /\ sheets_dict[i].name = selected_project =>
                       /\ cur.columns = IF "Comments" \in Range(org.columns)
                                        THEN org.columns
                                        ELSE Append(org.columns, "Comments")
                       /\ Len(cur.rows) = Len(org.rows)
                       /\ \A j \in 1..Len(cur.rows) :
                             /\ cur.rows[j].index = org.rows[j].index
                             /\ \A c \in Range(cur.columns) :
                                   IF c \notin Range(org.columns)
                                   THEN cur.rows[j].cells[c] = ""
                                   ELSE IF c \in DateColumns
                                   THEN cur.rows[j].cells[c] =
                                           IF pc = "done"
                                           THEN to_datetime(org.rows[j].cells[c])
                                           ELSE org.rows[j].cells[c]
                                   ELSE cur.rows[j].cells[c] = org.rows[j].cells[c]

C3_Witness ==
    /\ pc = "done"
    /\ ~button
    /\ status_filter # {}
    /\ Len(preview) > 0
    /\ HasColumn(Sheet(uploaded_file, selected_project), "Comments")
    /\ sheets_dict # uploaded_file

\* the exported lines, without the header
ExportedRows == Tail(updated_file.data)

\* C7 (as claimed): the export encodes every sheet of the workbook.
C7_ExportCoversEverySheet ==
    pc = "done" =>
        \A i \in 1..Len(sheets_dict) :
            \A j \in 1..Len(sheets_dict[i].df.rows) :
                \E k \in 1..Len(ExportedRows) :
                    ExportedRows[k] = to_csv(sheets_dict[i].df)[j + 1]

\* C7 (amended): the export encodes the selected sheet only: its header,
\* then every row of the sheet in order, whatever the active filter, each
\* cell as text; the file is named after the selected project.
C7_ExportIsSelectedSheet ==
    pc = "done" =>
        LET df == Sheet(sheets_dict, selected_project)
        IN /\ updated_file.file_name[2] = selected_project
           /\ updated_file.data[1] = df.columns
           /\ Len(ExportedRows) = Len(df.rows)
           /\ \A j \in 1..Len(df.rows) :
                 /\ Len(ExportedRows[j]) = Len(df.columns)
                 /\ \A k \in 1..Len(df.columns) :
                       LET c == df.columns[k]
                           v == df.rows[j].cells[c]
                       IN ExportedRows[j][k] = IF c \in DateColumns THEN v[2] ELSE v

C7_Witness ==
    /\ pc = "done"
    /\ button
    /\ Len(preview) > 0
    /\ Len(preview) < Len(SelectedRows)
    /\ Len(ExportedRows) = Len(SelectedRows)

\* C8 (as claimed): in a run in which Save Comment is pressed the preview is
\* the filter applied to the edited sheet and the three task lists show the
\* comments the preview shows.
C8_DisplayConsistentAfterSave ==
    (pc = "done" /\ button) =>
        /\ \A i \in 1..Len(SelectedRows) :
              Satisfies(SelectedRows[i]) <=>
                 \E k \in 1..Len(preview) :
                    /\ preview[k].index = SelectedRows[i].index
                    /\ preview[k].cells["Comments"] = SelectedRows[i].cells["Comments"]
        /\ task_lists.completed = TaskList(preview, "Completed")
        /\ task_lists.in_process = TaskList(preview, "In process")
        /\ task_lists.pending = TaskList(preview, "Pending")

\* C9 (as claimed): every run completes without raising an error.
C9_RunNeverRaises == pc # "error"

\* C10 (as claimed): completed + pending = total, completed counts the rows
\* whose Status is "Completed", pending is the number of rows in the In
\* Process and Pending lists together, and the completion rate is 0 for an
\* empty view, 100 * completed / total otherwise, within 0..100.
C10_MetricsConsistent ==
    pc \in {"editor", "button", "error"} =>
        /\ metrics.completed_tasks + metrics.pending_tasks = metrics.total_tasks
        /\ metrics.total_tasks = Len(filtered_df)
        /\ metrics.completed_tasks =
              Cardinality({k \in 1..Len(filtered_df) :
                              filtered_df[k].cells["Status"] = "Completed"})
        /\ metrics.pending_tasks =
              Len(task_lists.in_process) + Len(task_lists.pending)
        /\ metrics.total_tasks = 0 => metrics.completion_rate[1] = 0
        /\ metrics.total_tasks > 0 =>
              metrics.completion_rate[1] * metrics.total_tasks =
                 100 * metrics.completed_tasks * metrics.completion_rate[2]
        /\ metrics.completion_rate[2] > 0
        /\ 0 <= metrics.completion_rate[1]
        /\ metrics.completion_rate[1] <= 100 * metrics.completion_rate[2]

ColumnPos(header, c) == CHOOSE k \in 1..Len(header) : header[k] = c

\* C6 (as claimed): edits accumulate over a session: the data offered for
\* export by a completed run holds, for every task of the exported sheet
\* whose comment was saved in this or an earlier run, the latest comment
\* saved for it.
C6_ExportKeepsSavedComments ==
    pc = "done" =>
        \A e \in saved :
            e.project = selected_project =>
                \A k \in 1..Len(ExportedRows) :
                    ExportedRows[k][ColumnPos(updated_file.data[1], "Task Name")] = e.task =>
                        ExportedRows[k][ColumnPos(updated_file.data[1], "Comments")] = e.comment

====
